---- MODULE Spec2Model ----
(***************************************************************************)
(* A model of the sessao-lang front end: Span (span.rs), the Lexer         *)
(* (lexer.rs), the Parser (parser.rs), the Error enum (error.rs) and the   *)
(* crate entry points parse / parse_and_validate (lib.rs).                 *)
(***************************************************************************)
EXTENDS Integers, Sequences, FiniteSets, TLC

\* ------------------------------------------------------------------ bounds
\* longest source text explored
MaxLen == 3
\* most direct calls of next_token on one Lexer
MaxCalls == 3
\* largest byte offset of a span built with Span::new
MaxOff == 1
\* largest line / column of a span built with Span::new
MaxLC == 2

\* ------------------------------------------------------------------ inputs
\* One byte of source text: blank, newline, or a byte that starts a token.
Chars == {" ", "\n", "a"}

Whitespace == {" ", "\n"}

SeqsUpTo(n) == UNION {[1..k -> Chars] : k \in 0..n}

Sources == SeqsUpTo(MaxLen)

\* Sources of the span scenario: the empty text and every one-byte text.
SpanSources == {<<>>} \cup {<<c>> : c \in Chars}

\* The text of the crate documentation's example protocol.
ScenarioA ==
  "protocol Hello { roles Client, Server phase Main { Client -> Server: Ping Server -> Client: Pong end } }"

LibSources == {"", ScenarioA}

\* ------------------------------------------------------------------ span.rs
\* Span::new
SpanNew(start, end, line, column) ==
  [start |-> start, end |-> end, line |-> line, column |-> column]

\* Span::dummy
dummy == SpanNew(0, 0, 0, 0)

SpanSet == {SpanNew(s, e, l, c) : s \in 0..MaxOff, e \in 0..MaxOff,
                                   l \in 1..MaxLC, c \in 1..MaxLC}

\* usize::min / usize::max
min(x, y) == IF x <= y THEN x ELSE y
max(x, y) == IF x >= y THEN x ELSE y

\* A merge that keeps the overlap of the two spans instead of their cover.
merge_overlap(self, other) ==
  [start  |-> max(self.start, other.start),
   end    |-> min(self.end, other.end),
   line   |-> min(self.line, other.line),
   column |-> IF self.line <= other.line THEN self.column ELSE other.column]

\* A merge that keeps the end of its receiver.
merge_keep_end(self, other) ==
  [start  |-> min(self.start, other.start),
   end    |-> self.end,
   line   |-> min(self.line, other.line),
   column |-> IF self.line <= other.line THEN self.column ELSE other.column]

\* Span::merge
merge(self, other) ==
  [start  |-> min(self.start, other.start),
   end    |-> max(self.end, other.end),
   line   |-> min(self.line, other.line),
   column |-> IF self.line <= other.line THEN self.column ELSE other.column]

\* Span::len, over the integers: a negative value is a usize underflow.
len(s) == s.end - s.start

\* Span::is_empty
is_empty(s) == s.start = s.end

\* ------------------------------------------------------------------ error.rs
\* Error::NotImplemented(String)
NotImplemented(msg) == [variant |-> "NotImplemented", message |-> msg]

\* The spans an Error value carries: the `span` field of the variants that
\* have one; NotImplemented and Internal hold a String only.
ErrorSpans(e) ==
  IF e.variant \in {"Syntax", "UnexpectedToken", "Undefined", "Duplicate", "Type"}
  THEN <<e.span>>
  ELSE <<>>

\* Result<T>
Ok(v) == [kind |-> "ok", value |-> v]
Err(e) == [kind |-> "err", error |-> e]
NoResult == [kind |-> "none"]

\* ------------------------------------------------------------------ lexer.rs
\* Token
Token(kind, span, text) == [kind |-> kind, span |-> span, text |-> text]

\* Lexer::new
LexerNew(src) == [position |-> 0, line |-> 1, column |-> 1]

\* A skip that steps over one byte whether or not there is one.
skip_one_byte(src, lx) == [lx EXCEPT !.position = lx.position + 1]

\* Lexer::skip_whitespace_and_comments: the body is empty.
skip_whitespace_and_comments(src, lx) == lx

\* An end test that holds everywhere.
is_at_end_always(src, lx) == TRUE

\* Lexer::is_at_end
is_at_end(src, lx) == lx.position >= Len(src)

\* Lexer::current_span
current_span(lx) == SpanNew(lx.position, lx.position, lx.line, lx.column)

\* Lexer::next_token: the lexer after the call and the value returned.
next_token(src, lx) ==
  LET lx1 == skip_whitespace_and_comments(src, lx) IN
  IF is_at_end(src, lx1)
  THEN [lexer |-> lx1, ret |-> Ok(Token("Eof", current_span(lx1), ""))]
  ELSE [lexer |-> lx1, ret |-> Err(NotImplemented("Lexer not yet implemented"))]

\* A loop body that drops an error and scans on.
tokenize_iter_skip_error(src, lx, toks) ==
  LET r == next_token(src, lx) IN
  IF r.ret.kind = "err"
  THEN [pc |-> "loop", lexer |-> r.lexer, tokens |-> toks,
        last |-> r.ret, result |-> NoResult]
  ELSE LET pushed == Append(toks, r.ret.value) IN
       IF r.ret.value.kind = "Eof"
       THEN [pc |-> "done", lexer |-> r.lexer, tokens |-> pushed,
             last |-> r.ret, result |-> Ok(pushed)]
       ELSE [pc |-> "loop", lexer |-> r.lexer, tokens |-> pushed,
             last |-> r.ret, result |-> NoResult]

\* One iteration of the loop of Lexer::tokenize: `?` returns the error of
\* next_token at once; otherwise the token is pushed and Eof ends the loop.
tokenize_iter(src, lx, toks) ==
  LET r == next_token(src, lx) IN
  IF r.ret.kind = "err"
  THEN [pc |-> "done", lexer |-> r.lexer, tokens |-> toks,
        last |-> r.ret, result |-> Err(r.ret.error)]
  ELSE LET pushed == Append(toks, r.ret.value) IN
       IF r.ret.value.kind = "Eof"
       THEN [pc |-> "done", lexer |-> r.lexer, tokens |-> pushed,
             last |-> r.ret, result |-> Ok(pushed)]
       ELSE [pc |-> "loop", lexer |-> r.lexer, tokens |-> pushed,
             last |-> r.ret, result |-> NoResult]

\* ------------------------------------------------------------------ parser.rs
\* Parser::new
ParserNew(toks) == [tokens |-> toks, position |-> 0]

\* Parser::parse
parser_parse(p) == Err(NotImplemented("Parser not yet implemented"))

\* ------------------------------------------------------------------ lib.rs
\* todo!(msg): the call panics and returns nothing.
Panic(msg) == [kind |-> "panic", message |-> msg]

\* parse
parse(src) == Panic("not yet implemented: Implement parser")

\* parse_and_validate
parse_and_validate(src) ==
  Panic("not yet implemented: Implement parser and semantic analysis")

\* ------------------------------------------------------------------ state
VARIABLES
  source,    \* the source text
  lexer,     \* a Lexer over source, driven by direct next_token calls
  ret,       \* what the last direct next_token call returned
  ncalls,    \* direct next_token calls made
  tpc,       \* Lexer::tokenize: "idle", "loop" or "done"
  tlexer,    \* the Lexer local to tokenize
  tokens,    \* the Vec<Token> local to tokenize
  tlast,     \* what the last next_token call inside tokenize returned
  tcalls,    \* next_token calls made inside tokenize
  tresult,   \* what tokenize returned
  parser,    \* the Parser, once built
  presult,   \* what Parser::parse returned
  libcall,   \* the crate entry point called, if any
  libsrc,    \* its argument
  lresult,   \* its outcome
  a, b,      \* two spans
  merged,    \* a.merge(b)
  mdone      \* merged holds a.merge(b)

vars == <<source, lexer, ret, ncalls, tpc, tlexer, tokens, tlast, tcalls,
          tresult, parser, presult, libcall, libsrc, lresult, a, b, merged, mdone>>

lexvars == <<lexer, ret, ncalls>>
tokvars == <<tpc, tlexer, tokens, tlast, tcalls, tresult>>
parvars == <<parser, presult>>
libvars == <<libcall, libsrc, lresult>>
spanvars == <<a, b, merged, mdone>>

InitFrontEnd ==
  /\ lexer = LexerNew(source)
  /\ ret = NoResult
  /\ ncalls = 0
  /\ tpc = "idle"
  /\ tlexer = LexerNew(source)
  /\ tokens = <<>>
  /\ tlast = NoResult
  /\ tcalls = 0
  /\ tresult = NoResult
  /\ parser = ParserNew(<<>>)
  /\ presult = NoResult
  /\ libcall = "none"
  /\ libsrc = ""
  /\ lresult = NoResult

Init ==
  /\ source \in Sources
  /\ InitFrontEnd
  /\ a = dummy /\ b = dummy /\ merged = dummy /\ mdone = FALSE

InitSpan ==
  /\ source \in SpanSources
  /\ InitFrontEnd
  /\ a \in SpanSet /\ b \in SpanSet /\ merged = dummy /\ mdone = FALSE

\* ------------------------------------------------------------------ actions
\* lexer.next_token(), called directly on the Lexer.
NextToken ==
  /\ ncalls < MaxCalls
  /\ LET r == next_token(source, lexer) IN
       /\ lexer' = r.lexer
       /\ ret' = r.ret
  /\ ncalls' = ncalls + 1
  /\ UNCHANGED <<source, tokvars, parvars, libvars, spanvars>>

\* Lexer::tokenize(source) is entered: a fresh Lexer and an empty Vec.
TokenizeStart ==
  /\ tpc = "idle"
  /\ tlexer' = LexerNew(source)
  /\ tokens' = <<>>
  /\ tpc' = "loop"
  /\ UNCHANGED <<source, lexvars, tlast, tcalls, tresult, parvars, libvars, spanvars>>

\* One iteration of the loop of Lexer::tokenize.
TokenizeStep ==
  /\ tpc = "loop"
  /\ tcalls < MaxCalls
  /\ LET it == tokenize_iter(source, tlexer, tokens) IN
       /\ tpc' = it.pc
       /\ tlexer' = it.lexer
       /\ tokens' = it.tokens
       /\ tlast' = it.last
       /\ tresult' = it.result
  /\ tcalls' = tcalls + 1
  /\ UNCHANGED <<source, lexvars, parvars, libvars, spanvars>>

\* Parser::new(tokens).parse() on the tokens tokenize returned.
ParserParse ==
  /\ tresult.kind = "ok"
  /\ presult.kind = "none"
  /\ parser' = ParserNew(tresult.value)
  /\ presult' = parser_parse(parser')
  /\ UNCHANGED <<source, lexvars, tokvars, libvars, spanvars>>

\* parse(src)
LibParse ==
  /\ libcall = "none"
  /\ \E src \in LibSources :
       /\ libsrc' = src
       /\ lresult' = parse(src)
  /\ libcall' = "parse"
  /\ UNCHANGED <<source, lexvars, tokvars, parvars, spanvars>>

\* parse_and_validate(src)
LibParseAndValidate ==
  /\ libcall = "none"
  /\ \E src \in LibSources :
       /\ libsrc' = src
       /\ lresult' = parse_and_validate(src)
  /\ libcall' = "parse_and_validate"
  /\ UNCHANGED <<source, lexvars, tokvars, parvars, spanvars>>

\* a.merge(b)
MergeSpans ==
  /\ ~mdone
  /\ merged' = merge(a, b)
  /\ mdone' = TRUE
  /\ UNCHANGED <<source, lexvars, tokvars, parvars, libvars, a, b>>

\* The spans of the tokens the lexer has handed out so far.
TokenSpans ==
  (IF ret.kind = "ok" THEN {ret.value.span} ELSE {})
    \cup {tokens[i].span : i \in 1..Len(tokens)}

\* A token's span becomes the receiver of the next merge.
UseTokenSpan ==
  /\ \E s \in TokenSpans :
       /\ a # s
       /\ a' = s
  /\ merged' = dummy
  /\ mdone' = FALSE
  /\ UNCHANGED <<source, lexvars, tokvars, parvars, libvars, b>>

Next ==
  \/ NextToken
  \/ TokenizeStart
  \/ TokenizeStep
  \/ ParserParse
  \/ LibParse
  \/ LibParseAndValidate

Spec == Init /\ [][Next]_vars

NextSpan ==
  \/ NextToken
  \/ TokenizeStart
  \/ TokenizeStep
  \/ MergeSpans
  \/ UseTokenSpan

SpecSpan == InitSpan /\ [][NextSpan]_vars

\* ------------------------------------------------------------------ claims
Valid(s) == s.start <= s.end

\* The earlier of two positions, ordered by line and then by column.
EarlierPos(x, y) ==
  IF x.line < y.line \/ (x.line = y.line /\ x.column <= y.column)
  THEN <<x.line, x.column>>
  ELSE <<y.line, y.column>>

OnlyWhitespace(src) == \A i \in 1..Len(src) : src[i] \in Whitespace

\* C1: a.merge(b) is the smallest span covering a and b: it starts at the
\* lesser start and ends at the greater end, and any span that covers both
\* covers it.
C1_MergeSmallestCover ==
  mdone =>
    /\ merged.start <= a.start /\ merged.start <= b.start
    /\ merged.start \in {a.start, b.start}
    /\ merged.end >= a.end /\ merged.end >= b.end
    /\ merged.end \in {a.end, b.end}
    /\ \A s \in SpanSet :
         (s.start <= a.start /\ s.start <= b.start /\ s.end >= a.end /\ s.end >= b.end)
           => (s.start <= merged.start /\ merged.end <= s.end)

\* C1 witness: a merge of two spans neither of which covers the other.
C1_Witness == mdone /\ a.start < b.start /\ a.end < b.end

\* C2: the line/column of a.merge(b) is the earlier of the positions of a
\* and b, by line and then by column.
C2_MergeEarlierPosition ==
  mdone => <<merged.line, merged.column>> = EarlierPos(a, b)

\* C3: a successful tokenize returns a non-empty sequence with exactly one
\* Eof token, which is last, has empty text and a zero-length span at the
\* length of the source.
C3_TokenizeEndsWithEof ==
  tresult.kind = "ok" =>
    LET t == tresult.value IN
    /\ Len(t) >= 1
    /\ Cardinality({i \in 1..Len(t) : t[i].kind = "Eof"}) = 1
    /\ t[Len(t)].kind = "Eof"
    /\ t[Len(t)].text = ""
    /\ t[Len(t)].span.start = Len(source)
    /\ t[Len(t)].span.end = Len(source)

\* C3 witness: tokenize has returned Ok.
C3_Witness == tpc = "done" /\ tresult.kind = "ok" /\ tcalls >= 1

\* C4: on a source of whitespace only, tokenize succeeds and returns the
\* single Eof token.
C4_WhitespaceOnlyYieldsEof ==
  (tpc = "done" /\ OnlyWhitespace(source)) =>
    /\ tresult.kind = "ok"
    /\ Len(tresult.value) = 1
    /\ tresult.value[1].kind = "Eof"

\* C5: every Error returned by next_token, tokenize or Parser::parse carries
\* at least one span.
C5_ErrorsCarrySpan ==
  /\ ret.kind = "err" => Len(ErrorSpans(ret.error)) >= 1
  /\ tlast.kind = "err" => Len(ErrorSpans(tlast.error)) >= 1
  /\ tresult.kind = "err" => Len(ErrorSpans(tresult.error)) >= 1
  /\ presult.kind = "err" => Len(ErrorSpans(presult.error)) >= 1

\* C6: parse_and_validate on the example protocol returns the Protocol: no
\* error and no abort.
C6_ScenarioAValidates ==
  (libcall = "parse_and_validate" /\ libsrc = ScenarioA) => lresult.kind = "ok"

\* C7: the first error of next_token ends tokenize, which returns exactly
\* that error and no tokens; next_token is not called again after it.
C7_TokenizeFailFast ==
  [][ /\ tlast'.kind = "err" =>
           /\ tpc' = "done"
           /\ tresult' = Err(tlast'.error)
      /\ tlast.kind = "err" =>
           /\ tcalls' = tcalls
           /\ tlast' = tlast
           /\ tresult' = tresult ]_vars

\* C7 witness: tokenize has returned the error of its next_token call.
C7_Witness == tpc = "done" /\ tlast.kind = "err" /\ tresult.kind = "err"

\* C8: every span the lexer attaches to a token has start <= end, and the
\* merge of two such spans has start <= end, so its len does not underflow.
C8_SpanInvariant ==
  /\ \A s \in TokenSpans : Valid(s) /\ len(s) >= 0
  /\ (mdone /\ Valid(a) /\ Valid(b)) => (Valid(merged) /\ len(merged) >= 0)

\* C8 witness: a token's span merged with a disjoint well-formed span.
C8_Witness == mdone /\ a \in TokenSpans /\ Valid(b) /\ b.start > a.end

\* C9: a.merge(b) equals b.merge(a) in all four fields.
C9_MergeCommutes == mdone => merged = merge(b, a)

\* C10: at end of input every next_token call returns Eof with the same
\* zero-length span and leaves the lexer as it was; a lexer's position
\* never decreases and never exceeds the length of the source.
C10_EofIsStable ==
  [][ /\ lexer'.position >= lexer.position
      /\ lexer'.position <= Len(source)
      /\ tlexer'.position >= tlexer.position
      /\ tlexer'.position <= Len(source)
      /\ (ncalls' # ncalls /\ is_at_end(source, lexer)) =>
           /\ lexer' = lexer
           /\ ret'.kind = "ok"
           /\ ret'.value.kind = "Eof"
           /\ ret'.value.span.start = lexer.position
           /\ ret'.value.span.end = lexer.position
           /\ (ret.kind = "ok" => ret'.value.span = ret.value.span) ]_vars

\* C10 witness: a second call of next_token at end of input has returned.
C10_Witness == ncalls >= 2 /\ is_at_end(source, lexer) /\ ret.kind = "ok"

====
